---- MODULE Spec2Model ----
(***************************************************************************)
(* Model of subclass_register.SubclassRegister: registers that are linked  *)
(* to a base class, are notified through __init_subclass__ whenever a      *)
(* subclass is declared, and store name -> class entries in an ordered     *)
(* dictionary.  The host class system is modelled as far as the register   *)
(* uses it: class creation (which calls the parent's __init_subclass__),   *)
(* attribute lookup along the inheritance chain, bound methods, and        *)
(* issubclass.                                                             *)
(***************************************************************************)
EXTENDS Integers, Sequences, FiniteSets, TLC

\* ---------------------------------------------------------------- bounds
MaxClasses == 3
MaxSteps == 5
\* the largest register the similarity ranking is examined on
MaxKeys == 3

Registers == {1, 2}
Names == {"BaseCar", "SUV"}
\* the names looked up and ranked: names that differ by case only, names that
\* share letters and names that are equally similar to a third one
SimNames == Names \cup {"Sedan", "sedan", "SEDAN", "suv", "Sun"}

\* ------------------------------------------------------- host constants
\* linked_base = None
None == 0
\* the root of every inheritance chain
object == 0

\* register, linked_base: the attributes of each SubclassRegister
\* classes:   the classes created so far, in the order of their class statements
\* calls:     the calls of the hook the base had before link_base, made by the
\*            last class statement: <<class argument, keyword arguments given,
\*            the registers as that call found them>>
\* linked_at: history variable, the number of classes that existed when the
\*            register was linked
\* removed:   history variable, the names that were ever removed from the
\*            register
\* last, steps: the statement executed last and the number of statements
VARIABLES register, linked_base, linked_at, removed, classes, calls, last, steps

vars == <<register, linked_base, linked_at, removed, classes, calls, last, steps>>

\* ------------------------------------------------ the dict self.register
\* A Python dict is an insertion-ordered mapping: a sequence of <<key, value>>
\* pairs with pairwise distinct keys.
Keys(d) == {d[i][1] : i \in DOMAIN d}

\* a lookup that ignores the key and returns the first value
DictGet_first(d, k) == d[1][2]

DictGet(d, k) == d[CHOOSE i \in DOMAIN d : d[i][1] = k][2]

\* d.keys(), d.values(), d.items() and iter(d), consumed in full: the keys,
\* the values and the pairs in the order of the dict
DictKeys(d) == [i \in DOMAIN d |-> d[i][1]]
DictValues(d) == [i \in DOMAIN d |-> d[i][2]]
DictItems(d) == [i \in DOMAIN d |-> <<d[i][1], d[i][2]>>]

\* an assignment d[k] = v that puts a new key first
DictSet_front(d, k, v) ==
    IF k \in Keys(d)
    THEN [i \in DOMAIN d |-> IF d[i][1] = k THEN <<k, v>> ELSE d[i]]
    ELSE <<<<k, v>>>> \o d

\* d[k] = v : replaces the value in place when k is a key, appends otherwise
DictSet(d, k, v) ==
    IF k \in Keys(d)
    THEN [i \in DOMAIN d |-> IF d[i][1] = k THEN <<k, v>> ELSE d[i]]
    ELSE Append(d, <<k, v>>)

\* a deletion that drops the oldest entry instead of the entry of k
DictDel_first(d, k) == SubSeq(d, 2, Len(d))

\* del d[k]
DictDel(d, k) == SelectSeq(d, LAMBDA e : e[1] # k)

\* ------------------------------------------------------ the class system
\* A class is [name, parent, init_subclass, declared]; its id is its position in
\* classes.  init_subclass is the entry of the class's own __dict__,
\* Absent when the class does not define the attribute itself.
Absent == [kind |-> "absent"]

\* object.__init_subclass__ : the hook every class has before link_base is
\* applied; it accepts no keyword arguments and does nothing
ObjectHook == [kind |-> "object"]

\* the closure init_subclass created by link_base of register r, holding the
\* bound method old_init_subclass
RegisterHook(r, old) == [kind |-> "register", self |-> r, old |-> old]

RECURSIVE getattr_init_subclass(_, _)
\* cls.__init_subclass__ : the first definition along the inheritance chain
getattr_init_subclass(cs, c) ==
    IF c = object THEN ObjectHook
    ELSE IF cs[c].init_subclass # Absent THEN cs[c].init_subclass
    ELSE getattr_init_subclass(cs, cs[c].parent)

RECURSIVE issubclass(_, _, _)
issubclass(cs, c, base) ==
    IF c = base THEN TRUE
    ELSE IF c = object THEN FALSE
    ELSE issubclass(cs, cs[c].parent, base)

\* ------------------------------------------------------- str and difflib
\* the characters of a name
Chars(n) ==
    CASE n = "BaseCar" -> <<"B", "a", "s", "e", "C", "a", "r">>
      [] n = "SUV" -> <<"S", "U", "V">>
      [] n = "suv" -> <<"s", "u", "v">>
      [] n = "Sun" -> <<"S", "u", "n">>
      [] n = "Sedan" -> <<"S", "e", "d", "a", "n">>
      [] n = "sedan" -> <<"s", "e", "d", "a", "n">>
      [] n = "SEDAN" -> <<"S", "E", "D", "A", "N">>

\* str.lower() of one character
lower_char(c) ==
    CASE c = "A" -> "a" [] c = "B" -> "b" [] c = "C" -> "c" [] c = "D" -> "d"
      [] c = "E" -> "e" [] c = "N" -> "n" [] c = "S" -> "s" [] c = "U" -> "u"
      [] c = "V" -> "v" [] OTHER -> c

\* str.lower()
lower(cs) == [i \in DOMAIN cs |-> lower_char(cs[i])]

\* a[i .. i+k-1] = b[j .. j+k-1]
MatchAt(a, b, i, j, k) == \A t \in 0..(k - 1) : a[i + t] = b[j + t]

\* SequenceMatcher.find_longest_match without junk, on a[alo..ahi] and
\* b[blo..bhi]: <<i, j, k>> with k maximal; of the longest blocks the one that
\* starts earliest in a, and of those the one that starts earliest in b
find_longest_match(a, b, alo, ahi, blo, bhi) ==
    LET blocks == {m \in (alo..ahi) \X (blo..bhi) \X (1..(ahi - alo + 1)) :
                      /\ m[1] + m[3] - 1 <= ahi
                      /\ m[2] + m[3] - 1 <= bhi
                      /\ MatchAt(a, b, m[1], m[2], m[3])}
    IN  IF blocks = {} THEN <<alo, blo, 0>>
        ELSE CHOOSE m \in blocks : \A n \in blocks :
                 \/ m[3] > n[3]
                 \/ m[3] = n[3] /\ m[1] < n[1]
                 \/ m[3] = n[3] /\ m[1] = n[1] /\ m[2] <= n[2]

RECURSIVE matches(_, _, _, _, _, _)
\* the total size of SequenceMatcher.get_matching_blocks: the longest block,
\* then the same to its left and to its right
matches(a, b, alo, ahi, blo, bhi) ==
    IF alo > ahi \/ blo > bhi THEN 0
    ELSE LET m == find_longest_match(a, b, alo, ahi, blo, bhi)
         IN  IF m[3] = 0 THEN 0
             ELSE m[3] + matches(a, b, alo, m[1] - 1, blo, m[2] - 1)
                       + matches(a, b, m[1] + m[3], ahi, m[2] + m[3], bhi)

\* SequenceMatcher(None, a, b).ratio() = 2.0 * matches / (len(a) + len(b)),
\* kept as the fraction <<numerator, denominator>>
ratio(a, b) ==
    IF Len(a) + Len(b) = 0 THEN <<1, 1>>
    ELSE <<2 * matches(a, b, 1, Len(a), 1, Len(b)), Len(a) + Len(b)>>

\* x < y and x = y for fractions with positive denominators
Less(x, y) == x[1] * y[2] < y[1] * x[2]
Same(x, y) == x[1] * y[2] = y[1] * x[2]

\* get_similarity of _get_items_by_similarity
get_similarity(class_name, class_name_) ==
    ratio(lower(Chars(class_name)), lower(Chars(class_name_)))

\* the similarities of all the names, computed once
Similarity == [q \in SimNames |-> [k \in SimNames |-> get_similarity(q, k)]]

RECURSIVE sorted_ascending(_, _)
\* sorted(ks, key=get_similarity) without reverse=True
sorted_ascending(ks, q) ==
    IF ks = <<>> THEN <<>>
    ELSE LET n == Len(ks)
             front == sorted_ascending(SubSeq(ks, 1, n - 1), q)
             p == Cardinality({i \in DOMAIN front :
                      ~Less(Similarity[q][ks[n]], Similarity[q][front[i]])})
         IN  SubSeq(front, 1, p) \o <<ks[n]>> \o SubSeq(front, p + 1, n - 1)

RECURSIVE sorted_reverse(_, _)
\* sorted(ks, key=get_similarity, reverse=True): by decreasing similarity to
\* q; the sort is stable, equal keys stay in the order of ks
sorted_reverse(ks, q) ==
    IF ks = <<>> THEN <<>>
    ELSE LET n == Len(ks)
             front == sorted_reverse(SubSeq(ks, 1, n - 1), q)
             p == Cardinality({i \in DOMAIN front :
                      ~Less(Similarity[q][front[i]], Similarity[q][ks[n]])})
         IN  SubSeq(front, 1, p) \o <<ks[n]>> \o SubSeq(front, p + 1, n - 1)

\* ------------------------------------------------- SubclassRegister methods
\* _get_items_by_similarity
get_items_by_similarity(d, class_name) == sorted_reverse(DictKeys(d), class_name)

\* __contains__
contains(d, class_name) == class_name \in Keys(d)

\* the names listed in the message of _validate_class_in_register
sorted_items(d, class_name) ==
    IF ~contains(d, class_name) THEN get_items_by_similarity(d, class_name)
    ELSE <<>>

\* _validate_class_in_register : the exception it raises, "none" otherwise
validate_class_in_register(d, class_name) ==
    IF ~contains(d, class_name) THEN "NotInRegisterError" ELSE "none"

\* __getitem__
getitem_pop(d, class_name) ==
    LET exc == validate_class_in_register(d, class_name)
    IN  [exc |-> exc,
         ret |-> IF exc = "none" THEN DictGet(d, class_name) ELSE None,
         sorted_items |-> sorted_items(d, class_name),
         register |-> IF exc = "none" THEN DictDel(d, class_name) ELSE d]

\* register[class_name]: the exception, the class returned and the dict as the
\* call leaves it
getitem(d, class_name) ==
    LET exc == validate_class_in_register(d, class_name)
    IN  [exc |-> exc,
         ret |-> IF exc = "none" THEN DictGet(d, class_name) ELSE None,
         sorted_items |-> sorted_items(d, class_name),
         register |-> d]

\* __setitem__ without the duplicate check: an existing name is overwritten
setitem_overwrite(d, name, cls) ==
    [exc |-> "none", register |-> DictSet(d, name, cls)]

\* __setitem__
setitem(d, name, cls) ==
    IF name \in Keys(d)
    THEN [exc |-> "ValueError", register |-> d]
    ELSE [exc |-> "none", register |-> DictSet(d, name, cls)]

\* __delitem__ without the validation: deleting an absent name passes silently
delitem_quiet(d, class_name) ==
    [exc |-> "none", sorted_items |-> <<>>, register |-> DictDel(d, class_name)]

\* __delitem__
delitem(d, class_name) ==
    LET exc == validate_class_in_register(d, class_name)
    IN  [exc |-> exc,
         sorted_items |-> sorted_items(d, class_name),
         register |-> IF exc = "none" THEN DictDel(d, class_name) ELSE d]

\* the property linked
linked(lb) == IF lb = None THEN FALSE ELSE TRUE

\* SubclassRegister.available_classes: tuple(self.register.keys())
available_classes_sorted(d) ==
    LET ks == DictKeys(d)
    IN  IF Len(ks) = 2 /\ ks[1] = "SUV" THEN <<ks[2], ks[1]>> ELSE ks

available_classes(d) == DictKeys(d)

\* SubclassRegister.items, values, keys and __iter__
items(d) == DictItems(d)
values(d) == DictValues(d)
keys(d) == DictKeys(d)
iter(d) == DictKeys(d)

\* link_base without the check of linked: a second call links again
link_base_relink(lb, cs, r, cls) ==
    [exc |-> "none",
     linked_base |-> [lb EXCEPT ![r] = cls],
     classes |-> [cs EXCEPT ![cls].init_subclass =
                        RegisterHook(r, [func |-> getattr_init_subclass(cs, cls),
                                         self |-> cls])]]

\* link_base : the whole method, on the state st = [exc, linked_base, classes]
link_base(lb, cs, r, cls) ==
    IF linked(lb[r])
    THEN [exc |-> "RuntimeError", linked_base |-> lb, classes |-> cs]
    ELSE LET old_init_subclass ==
                 [func |-> getattr_init_subclass(cs, cls), self |-> cls]
         IN  [exc |-> "none",
              linked_base |-> [lb EXCEPT ![r] = cls],
              classes |-> [cs EXCEPT ![cls].init_subclass =
                                 RegisterHook(r, old_init_subclass)]]

\* skip without the issubclass check
skip_nocheck(lb, cs, d, r, cls) ==
    IF ~linked(lb[r])
    THEN [exc |-> "RuntimeError", register |-> d]
    ELSE delitem(d, cs[cls].name)

\* skip that removes the entries holding the class instead of the entry of its name
skip_by_class(lb, cs, d, r, cls) ==
    IF ~linked(lb[r])
    THEN [exc |-> "RuntimeError", register |-> d]
    ELSE IF ~issubclass(cs, cls, lb[r])
    THEN [exc |-> "ValueError", register |-> d]
    ELSE [exc |-> validate_class_in_register(d, cs[cls].name),
          register |-> SelectSeq(d, LAMBDA e : e[2] # cls)]

\* skip
skip(lb, cs, d, r, cls) ==
    IF ~linked(lb[r])
    THEN [exc |-> "RuntimeError", register |-> d]
    ELSE IF ~issubclass(cs, cls, lb[r])
    THEN [exc |-> "ValueError", register |-> d]
    ELSE delitem(d, cs[cls].name)

RECURSIVE Call_hook_first(_, _, _, _, _)
\* init_subclass calling old_init_subclass before it rejects a duplicate name
Call_hook_first(f, cls_, kw, cs, st) ==
    IF f.kind = "object"
    THEN [st EXCEPT !.calls = Append(@, <<cls_, kw, st.register>>),
                    !.exc = IF kw THEN "TypeError" ELSE "none"]
    ELSE LET name == cs[cls_].name
             r == f.self
         IN  IF name \in Keys(st.register[r])
             THEN [Call_hook_first(f.old.func, f.old.self, kw, cs, st)
                       EXCEPT !.exc = "ValueError"]
             ELSE Call_hook_first(f.old.func, f.old.self, kw, cs,
                      [st EXCEPT !.register[r] =
                                     setitem(st.register[r], name, cls_).register])

RECURSIVE Call(_, _, _, _, _)
\* f(cls_, **kwargs) for a callable f, threading st = [exc, register, calls]
Call(f, cls_, kw, cs, st) ==
    IF f.kind = "object"
    THEN [st EXCEPT !.calls = Append(@, <<cls_, kw, st.register>>),
                    !.exc = IF kw THEN "TypeError" ELSE "none"]
    ELSE \* init_subclass of link_base
         LET name == cs[cls_].name
             r == f.self
         IN  IF name \in Keys(st.register[r])
             THEN [st EXCEPT !.exc = "ValueError"]
             ELSE LET s == setitem(st.register[r], name, cls_)
                  IN  IF s.exc # "none"
                      THEN [st EXCEPT !.exc = s.exc]
                      ELSE Call(f.old.func, f.old.self, kw, cs,
                                [st EXCEPT !.register[r] = s.register])

\* the class statement "class name(parent, **kw)": creates the class object and
\* calls super().__init_subclass__(**kw) with the new class
type_new(cs, regs, name, parent, kw) ==
    LET k == Len(cs) + 1
        body == [name |-> name, parent |-> parent,
                 init_subclass |-> Absent,
                 declared |-> FALSE]
        cs1 == Append(cs, body)
        st == Call(getattr_init_subclass(cs1, parent), k, kw, cs1,
                   [exc |-> "none", register |-> regs, calls |-> <<>>])
    IN  [exc |-> st.exc, register |-> st.register, calls |-> st.calls,
         classes |-> [cs1 EXCEPT ![k].declared = (st.exc = "none")]]

\* ------------------------------------------------------------- the state
Declared == {c \in DOMAIN classes : classes[c].declared}

\* The statement executed last: its operation and arguments, the exception it
\* raised ("none" when it returned) and the value it returned: ret for a class,
\* view for a tuple, an iteration or the names listed by the message of a
\* NotInRegisterError, flag for a bool.  For a class statement,
\* fresh is the set of registers that did not hold the name before and kw
\* tells whether keyword arguments were given.
Event(op, r, name, cls, exc, ret, fresh) ==
    [op |-> op, reg |-> r, name |-> name, cls |-> cls, exc |-> exc, ret |-> ret,
     fresh |-> fresh, kw |-> FALSE, view |-> <<>>, flag |-> FALSE]

Init ==
    /\ register = [r \in Registers |-> <<>>]
    /\ linked_base = [r \in Registers |-> None]
    /\ linked_at = [r \in Registers |-> 0]
    /\ removed = [r \in Registers |-> {}]
    /\ classes = <<>>
    /\ calls = <<>>
    /\ last = Event("init", 0, "", None, "none", None, {})
    /\ steps = 0

\* every statement of the host program counts against the budget of the run
Tick == steps < MaxSteps /\ steps' = steps + 1

\* class name(parent, **kw): ...
Declare(name, parent, kw) ==
    /\ Tick
    /\ Len(classes) < MaxClasses
    /\ LET res == type_new(classes, register, name, parent, kw)
       IN  /\ classes' = res.classes
           /\ register' = res.register
           /\ calls' = res.calls
           /\ last' = [Event("declare", 0, name, Len(classes) + 1, res.exc, None,
                            {r \in Registers : name \notin Keys(register[r])})
                       EXCEPT !.kw = kw]
    /\ UNCHANGED <<linked_base, linked_at, removed>>

\* register.link_base(cls)
LinkBase(r, cls) ==
    Tick /\
    LET res == link_base(linked_base, classes, r, cls)
    IN  /\ linked_base' = res.linked_base
        /\ linked_at' = IF res.exc = "none"
                        THEN [linked_at EXCEPT ![r] = Len(classes)]
                        ELSE linked_at
        /\ classes' = res.classes
        /\ calls' = <<>>
        /\ last' = Event("link_base", r, "", cls, res.exc,
                         IF res.exc = "none" THEN cls ELSE None, {})
        /\ UNCHANGED <<register, removed>>

\* register.skip(cls)
Skip(r, cls) ==
    Tick /\
    LET res == skip(linked_base, classes, register[r], r, cls)
    IN  /\ register' = [register EXCEPT ![r] = res.register]
        /\ calls' = <<>>
        /\ last' = Event("skip", r, "", cls, res.exc,
                         IF res.exc = "none" THEN cls ELSE None, {})
        /\ removed' = [removed EXCEPT ![r] = @ \cup (Keys(register[r]) \ Keys(res.register))]
        /\ UNCHANGED <<linked_base, linked_at, classes>>

\* register[name] = cls
SetItem(r, name, cls) ==
    Tick /\
    LET res == setitem(register[r], name, cls)
    IN  /\ register' = [register EXCEPT ![r] = res.register]
        /\ calls' = <<>>
        /\ last' = Event("set", r, name, cls, res.exc, None, {})
        /\ UNCHANGED <<linked_base, linked_at, removed, classes>>

\* del register[name]
DelItem(r, name) ==
    Tick /\
    LET res == delitem(register[r], name)
    IN  /\ register' = [register EXCEPT ![r] = res.register]
        /\ calls' = <<>>
        /\ last' = [Event("del", r, name, None, res.exc, None, {})
                        EXCEPT !.view = res.sorted_items]
        /\ removed' = [removed EXCEPT ![r] = @ \cup (Keys(register[r]) \ Keys(res.register))]
        /\ UNCHANGED <<linked_base, linked_at, classes>>

\* register[name]
GetItem(r, name) ==
    Tick /\
    LET res == getitem(register[r], name)
    IN  /\ register' = [register EXCEPT ![r] = res.register]
        /\ calls' = <<>>
        /\ last' = [Event("get", r, name, None, res.exc, res.ret, {})
                        EXCEPT !.view = res.sorted_items]
        /\ UNCHANGED <<linked_base, linked_at, removed, classes>>

\* a statement that leaves an event and assigns nothing
Read(e) ==
    /\ Tick
    /\ calls' = <<>>
    /\ last' = e
    /\ UNCHANGED <<register, linked_base, linked_at, removed, classes>>

\* name in register
Contains(r, name) ==
    Read([Event("contains", r, name, None, "none", None, {})
              EXCEPT !.flag = contains(register[r], name)])

\* tuple(iter(register))
Iterate(r) ==
    Read([Event("iter", r, "", None, "none", None, {})
              EXCEPT !.view = iter(register[r])])

\* tuple(register.keys())
CallKeys(r) ==
    Read([Event("keys", r, "", None, "none", None, {})
              EXCEPT !.view = keys(register[r])])

\* tuple(register.values())
CallValues(r) ==
    Read([Event("values", r, "", None, "none", None, {})
              EXCEPT !.view = values(register[r])])

\* tuple(register.items())
CallItems(r) ==
    Read([Event("items", r, "", None, "none", None, {})
              EXCEPT !.view = items(register[r])])

\* register.available_classes
AvailableClasses(r) ==
    Read([Event("available_classes", r, "", None, "none", None, {})
              EXCEPT !.view = available_classes(register[r])])

\* register.linked
Linked(r) ==
    Read([Event("linked", r, "", None, "none", None, {})
              EXCEPT !.flag = linked(linked_base[r])])

\* one statement of the host program
Next ==
    \/ \E name \in Names, parent \in {object} \cup Declared,
          kw \in BOOLEAN : Declare(name, parent, kw)
    \/ \E r \in Registers, cls \in Declared : LinkBase(r, cls)
    \/ \E r \in Registers, cls \in Declared : Skip(r, cls)
    \/ \E r \in Registers, name \in Names, cls \in Declared : SetItem(r, name, cls)
    \/ \E r \in Registers, name \in Names : DelItem(r, name)
    \/ \E r \in Registers, name \in Names : GetItem(r, name)

Spec == Init /\ [][Next]_vars

\* The host program that also reads: every operation of one register, the
\* queries included.  The second register is constructed and never used.
NextRead ==
    \/ \E name \in Names, parent \in {object} \cup Declared,
          kw \in BOOLEAN : Declare(name, parent, kw)
    \/ \E cls \in Declared : LinkBase(1, cls)
    \/ \E cls \in Declared : Skip(1, cls)
    \/ \E name \in Names, cls \in Declared : SetItem(1, name, cls)
    \/ \E name \in Names : DelItem(1, name)
    \/ \E name \in Names : GetItem(1, name)
    \/ \E name \in Names : Contains(1, name)
    \/ Iterate(1)
    \/ CallKeys(1)
    \/ CallValues(1)
    \/ CallItems(1)
    \/ AvailableClasses(1)
    \/ Linked(1)

SpecRead == Init /\ [][NextRead]_vars

\* The registers the ranking is examined on: after "class BaseCar: pass" and
\* at most MaxKeys assignments register[name] = BaseCar, in any order.
SimDicts ==
    UNION {{[i \in 1..n |-> <<f[i], 1>>] :
               f \in {g \in [1..n -> SimNames] :
                          \A i, j \in 1..n : i # j => g[i] # g[j]}} :
           n \in 0..MaxKeys}

SimInit ==
    /\ classes = <<[name |-> "BaseCar", parent |-> object,
                    init_subclass |-> Absent, declared |-> TRUE]>>
    /\ register \in {[r \in Registers |-> IF r = 1 THEN d ELSE <<>>] : d \in SimDicts}
    /\ linked_base = [r \in Registers |-> None]
    /\ linked_at = [r \in Registers |-> 0]
    /\ removed = [r \in Registers |-> {}]
    /\ calls = <<>>
    /\ last = Event("init", 0, "", None, "none", None, {})
    /\ steps = 0

\* lookups and deletions by any of the names
SimNext ==
    \/ \E name \in SimNames : GetItem(1, name)
    \/ \E name \in SimNames : DelItem(1, name)

SimSpec == SimInit /\ [][SimNext]_vars

TypeOK ==
    /\ \A r \in Registers :
          /\ Cardinality(Keys(register[r])) = Len(register[r])
          /\ linked_base[r] \in {None} \cup DOMAIN classes
          /\ linked_at[r] \in 0..Len(classes)
          /\ removed[r] \subseteq SimNames
    /\ Len(classes) <= MaxClasses

\* ------------------------------------------------------------ properties
\* the entry at position i removed, the others in their order
RemoveAt(d, i) == [j \in 1..(Len(d) - 1) |-> IF j < i THEN d[j] ELSE d[j + 1]]

\* the positions of the key n in d
Positions(d, n) == {i \in DOMAIN d : d[i][1] = n}

\* register r observes class k: r is linked and k is a subclass of its base
Observes(lb, cs, r, k) == lb[r] # None /\ issubclass(cs, k, lb[r])

\* C1: after link_base(B) on a register, every declaration of a subclass of B
\* whose name is not yet a key appends exactly name -> class to that register
\* and changes no other entry.
C1_AutoRegistration ==
    [][last'.op = "declare" =>
        \A r \in Registers :
            (/\ Observes(linked_base, classes', r, last'.cls)
             /\ last'.cls # linked_base[r]
             /\ r \in last'.fresh)
            => register'[r] = Append(register[r], <<last'.name, last'.cls>>)]_vars

\* C2: declaring a subclass whose name is already a key of a linked register
\* fails with ValueError and leaves that register's entries unchanged.
C2_DuplicateDeclaration ==
    [][last'.op = "declare" =>
        \A r \in Registers :
            (/\ Observes(linked_base, classes', r, last'.cls)
             /\ last'.cls # linked_base[r]
             /\ r \notin last'.fresh)
            => /\ last'.exc = "ValueError"
               /\ register'[r] = register[r]]_vars

\* C3: set(name, T) with name a key fails with ValueError and changes nothing;
\* with name absent it succeeds and appends exactly name -> T.
C3_SetItem ==
    [][last'.op = "set" =>
        LET r == last'.reg
            n == last'.name
        IN  /\ \A q \in Registers \ {r} : register'[q] = register[q]
            /\ IF Positions(register[r], n) # {}
               THEN /\ last'.exc = "ValueError"
                    /\ register'[r] = register[r]
               ELSE /\ last'.exc = "none"
                    /\ register'[r] = Append(register[r], <<n, last'.cls>>)]_vars

\* a failed set of the very class that is already stored under the name
C3_Witness ==
    /\ last.op = "set"
    /\ last.exc = "ValueError"
    /\ <<last.name, last.cls>> \in {register[last.reg][i] : i \in DOMAIN register[last.reg]}

\* C4: contains(name) is true iff name is a key; get(name) returns the class
\* stored under exactly that name and fails with NotInRegisterError when the name
\* is no key; a class just set under a name is what get returns for it.
C4_Lookup ==
    [][/\ last'.op = "get" =>
            LET d == register[last'.reg]
                n == last'.name
            IN  /\ contains(d, n) <=> Positions(d, n) # {}
                /\ IF Positions(d, n) # {}
                   THEN /\ last'.exc = "none"
                        /\ \E i \in Positions(d, n) : d[i][2] = last'.ret
                   ELSE /\ last'.exc = "NotInRegisterError"
                        /\ last'.ret = None
       /\ (last'.op = "set" /\ last'.exc = "none") =>
            /\ contains(register'[last'.reg], last'.name)
            /\ getitem(register'[last'.reg], last'.name).exc = "none"
            /\ getitem(register'[last'.reg], last'.name).ret = last'.cls
            /\ \A m \in Names \ {last'.name} :
                   /\ getitem(register'[last'.reg], m).exc = getitem(register[last'.reg], m).exc
                   /\ getitem(register'[last'.reg], m).ret = getitem(register[last'.reg], m).ret]_vars

\* a successful get from a register holding two names with different classes
C4_Witness ==
    /\ last.op = "get"
    /\ last.exc = "none"
    /\ Len(register[last.reg]) = 2
    /\ register[last.reg][1][2] # register[last.reg][2][2]
    /\ register[last.reg][2] = <<last.name, last.ret>>

\* C5: linked_base starts as None, the first link_base(B) sets it to B, every
\* later link_base fails with RuntimeError and changes neither linked_base nor
\* the entries nor any class's hook; no other operation changes linked_base.
C5_LinkedOnce ==
    /\ steps = 0 => \A r \in Registers : linked_base[r] = None
    /\ [][IF last'.op = "link_base"
          THEN LET r == last'.reg
               IN  /\ register' = register
                   /\ IF linked_base[r] # None
                      THEN /\ last'.exc = "RuntimeError"
                           /\ linked_base' = linked_base
                           /\ classes' = classes
                      ELSE /\ last'.exc = "none"
                           /\ last'.ret = last'.cls
                           /\ linked_base' = [linked_base EXCEPT ![r] = last'.cls]
          ELSE linked_base' = linked_base]_vars

\* a rejected link_base with a base other than the linked one
C5_Witness ==
    /\ last.op = "link_base"
    /\ last.exc = "RuntimeError"
    /\ linked_base[last.reg] # None
    /\ linked_base[last.reg] # last.cls

\* C6: declaring a subclass of the linked base under a name the register does
\* not hold and skipping it at once is a round trip: the entry is present in
\* between, the skip succeeds and removes exactly the appended entry, after
\* which the name is no key and get fails.
C6_DeclareSkipRoundTrip ==
    [][(/\ last.op = "declare"
        /\ last.exc = "none"
        /\ last'.op = "skip"
        /\ last'.cls = last.cls
        /\ Observes(linked_base, classes, last'.reg, last.cls)
        /\ last.cls # linked_base[last'.reg]
        /\ last'.reg \in last.fresh)
       => LET r == last'.reg
          IN  /\ last'.exc = "none"
              /\ register[r] = Append(register'[r], <<last.name, last.cls>>)
              /\ ~contains(register'[r], last.name)
              /\ getitem(register'[r], last.name).exc = "NotInRegisterError"]_vars

C8_SkipRejected ==
    [][last'.op = "skip" =>
        LET r == last'.reg
        IN  /\ linked_base[r] = None =>
                /\ last'.exc = "RuntimeError"
                /\ register' = register
            /\ (linked_base[r] # None
                /\ ~issubclass(classes, last'.cls, linked_base[r])) =>
                /\ last'.exc = "ValueError"
                /\ register' = register]_vars

\* a skip rejected with ValueError although the class's name is a key
C8_Witness ==
    /\ last.op = "skip"
    /\ last.exc = "ValueError"
    /\ classes[last.cls].name \in Keys(register[last.reg])

\* C9: on a linked register, skip of a subclass of the base (the base itself
\* included) whose name is no key fails with NotInRegisterError and leaves the
\* entries unchanged.
C9_SkipAbsent ==
    [][(/\ last'.op = "skip"
        /\ Observes(linked_base, classes, last'.reg, last'.cls)
        /\ Positions(register[last'.reg], classes[last'.cls].name) = {})
       => /\ last'.exc = "NotInRegisterError"
          /\ register' = register]_vars

\* a failed skip of a proper subclass of the base, not registered under its
\* name, on a register that holds another entry
C9_Witness ==
    /\ last.op = "skip"
    /\ last.exc = "NotInRegisterError"
    /\ last.cls # linked_base[last.reg]
    /\ register[last.reg] # <<>>

Hooked(lb, cs, k) == \E r \in Registers : Observes(lb, cs, r, k) /\ k # lb[r]

\* C11 as claimed: once a base is linked, the hook it had before runs on every
\* later declaration of a subclass, also when the registration fails.
C11_HookAlwaysRuns ==
    [][(last'.op = "declare" /\ Hooked(linked_base, classes', last'.cls))
       => Len(calls') = 1]_vars

\* C11 amended: the hook the base had before runs on a later declaration of a
\* subclass exactly when no registration of that declaration fails; a
\* registration that raises ValueError aborts the declaration before the hook
\* is called.
C11_HookRunsUnlessDuplicate ==
    [][(last'.op = "declare" /\ Hooked(linked_base, classes', last'.cls))
       => /\ last'.exc = "ValueError" <=> calls' = <<>>
          /\ last'.exc # "ValueError" => Len(calls') = 1]_vars

\* a declaration under a linked base that failed on a duplicate name
C11_Witness ==
    /\ last.op = "declare"
    /\ last.exc = "ValueError"
    /\ Hooked(linked_base, classes, last.cls)
    /\ calls = <<>>

\* C12: for each successfully registered subclass declaration the hook the base
\* had before link_base runs exactly once, with the declared subclass as its
\* class argument and the keyword arguments of the declaration.
C12_HookComposition ==
    [][(/\ last'.op = "declare"
        /\ Hooked(linked_base, classes', last'.cls)
        /\ last'.exc # "ValueError")
       => /\ Len(calls') = 1
          /\ calls'[1][1] = last'.cls
          /\ calls'[1][2] = last'.kw]_vars

\* C18: with both registers linked to the same base, every later declaration
\* of a subclass of that base under a name fresh to both registers succeeds and
\* appends exactly name -> class to each register, and nothing else (never an
\* entry for the base itself).
C18_TwoRegistersOneBase ==
    [][(/\ last'.op = "declare"
        /\ ~last'.kw
        /\ linked_base[1] # None
        /\ linked_base[1] = linked_base[2]
        /\ Hooked(linked_base, classes', last'.cls)
        /\ last'.fresh = Registers)
       => /\ last'.exc = "none"
          /\ \A r \in Registers :
                 register'[r] = Append(register[r], <<last'.name, last'.cls>>)]_vars

\* the entries of d2 that d1 does not hold
Added(d1, d2) == {i \in DOMAIN d2 : \A j \in DOMAIN d1 : d1[j] # d2[i]}

\* C16: a successful link_base leaves the entries of every register as they
\* were (so it registers neither the base nor anything else), and a class that
\* was declared before the register was linked is never added to it by a
\* later class statement.
C16_LinkAddsNothing ==
    [][/\ last'.op = "link_base" => register' = register
       /\ last'.op = "declare" =>
             \A r \in Registers : \A i \in Added(register[r], register'[r]) :
                 register'[r][i][2] > linked_at'[r]]_vars

\* C17: within one class statement the duplicate check and the insertion come
\* before the call of the hook the base had before link_base: that hook finds
\* the name of the class being declared in every register that observes the
\* class, and when the hook raises, the statement fails and the entry stays.
C17_InsertBeforeHook ==
    [][(last'.op = "declare" /\ Hooked(linked_base, classes', last'.cls))
       => \A r \in Registers :
              (Observes(linked_base, classes', r, last'.cls) /\ last'.cls # linked_base[r])
              => /\ \A i \in DOMAIN calls' : last'.name \in Keys(calls'[i][3][r])
                 /\ last'.exc = "TypeError"
                        => (~classes'[last'.cls].declared /\ last'.name \in Keys(register'[r]))]_vars

\* the entries of d1 whose key is also a key of d2, in the order of d1
Surviving(d1, d2) == SelectSeq(d1, LAMBDA e : e[1] \in Keys(d2))

\* C13: the entries are kept in insertion order.  Every statement leaves the
\* entries that stay in their order and puts every entry it inserts behind
\* them, so a name that was removed and is inserted again is listed last;
\* available_classes, iteration and keys() list the names, values() the
\* classes and items() the pairs in exactly that order.
C13_InsertionOrder ==
    [][\A r \in Registers :
          /\ Surviving(register'[r], register[r]) = Surviving(register[r], register'[r])
          /\ \A i, j \in DOMAIN register'[r] :
                 (/\ register'[r][i][1] \in Keys(register[r])
                  /\ register'[r][j][1] \notin Keys(register[r])) => i < j
          /\ (last'.reg = r /\ last'.op \in {"available_classes", "iter", "keys"})
                 => /\ Len(last'.view) = Len(register'[r])
                    /\ \A i \in DOMAIN register'[r] : last'.view[i] = register'[r][i][1]
          /\ (last'.reg = r /\ last'.op = "values")
                 => /\ Len(last'.view) = Len(register'[r])
                    /\ \A i \in DOMAIN register'[r] : last'.view[i] = register'[r][i][2]
          /\ (last'.reg = r /\ last'.op = "items")
                 => last'.view = register'[r]]_vars

\* a name that was removed is inserted again behind another entry, and
\* available_classes lists it last
C13_Witness ==
    /\ last.op = "set"
    /\ last.exc = "none"
    /\ last.name \in removed[last.reg]
    /\ Len(register[last.reg]) = 2
    /\ available_classes(register[last.reg])[2] = last.name

\* the operations that only query a register
ReadOps == {"get", "contains", "iter", "keys", "values", "items",
            "available_classes", "linked"}

\* C15: a read operation (get that succeeds or fails, contains, iteration,
\* keys, values, items, available_classes, linked) leaves the entries and the
\* linked base of every register unchanged, and a read that repeats the
\* previous statement returns what that statement returned.
C15_ReadsChangeNothing ==
    [][last'.op \in ReadOps
       => /\ register' = register
          /\ linked_base' = linked_base
          /\ (last.op = last'.op /\ last.reg = last'.reg /\ last.name = last'.name)
                 => /\ last'.exc = last.exc
                    /\ last'.ret = last.ret
                    /\ last'.view = last.view
                    /\ last'.flag = last.flag]_vars

\* available_classes read on a register with two entries
C15_Witness ==
    /\ last.op = "available_classes"
    /\ last.view = <<"SUV", "BaseCar">>
    /\ register[last.reg] # <<>>

\* the position of the key n in the dict d
Pos(d, n) == CHOOSE i \in DOMAIN d : d[i][1] = n

\* C14: the names listed by the NotInRegisterError of a get or a delete of an
\* absent name q are exactly the current keys, each once and never q itself,
\* by non-increasing similarity to q after lower-casing both; keys of equal
\* similarity stay in insertion order; before a key that differs from q by
\* case only stand only keys that are as similar as it is.
C14_SimilarityRanking ==
    [][(last'.op \in {"get", "del"} /\ last'.exc = "NotInRegisterError")
       => LET q == last'.name
              c == last'.view
              d == register[last'.reg]
              sim(i) == Similarity[q][c[i]]
          IN  /\ Len(c) = Len(d)
              /\ {c[i] : i \in DOMAIN c} = Keys(d)
              /\ \A i \in DOMAIN c : c[i] # q
              /\ \A i, j \in DOMAIN c :
                     i < j => /\ ~Less(sim(i), sim(j))
                              /\ Same(sim(i), sim(j)) => Pos(d, c[i]) < Pos(d, c[j])
                              /\ lower(Chars(c[j])) = lower(Chars(q))
                                     => Same(sim(i), sim(j))]_vars

\* the miss on "sedan" with the keys SUV and Sedan lists Sedan first
C14_Witness ==
    /\ last.op = "get"
    /\ last.exc = "NotInRegisterError"
    /\ last.name = "sedan"
    /\ keys(register[last.reg]) = <<"SUV", "Sedan">>
    /\ last.view = <<"Sedan", "SUV">>

====
